---- MODULE Spec2Model ----
(***************************************************************************)
(* SoulStream: the regime controller (ModeController, src/main.py) and the *)
(* particle engine (ParticleSystem, src/particles.py) with the two spawn   *)
(* sources it samples (ImageSource, src/image_source.py; the camera grids  *)
(* of src/camera.py), and the application around them (SoulStreamApp,      *)
(* src/main.py): its keys, its frame loop on_draw and the capture thread   *)
(* of the Camera.                                                          *)
(*                                                                         *)
(* Units.  Controller time is in whole seconds (time.monotonic()); the     *)
(* motion signal is in hundredths (0.06 is 6).  Engine time, dt and        *)
(* lifetimes are in ticks of half a second; colours are in hundredths;     *)
(* positions and velocities are integers of one common scale.              *)
(***************************************************************************)
EXTENDS Integers, Sequences, FiniteSets, Bags, TLC

VARIABLES
    \* ModeController (src/main.py:164-169)
    mode, is_ember, _ember_since, _last_high, _cycle_start,
    \* time.monotonic(), read by the callers of the controller
    clock,
    \* record of the last controller call: its name, its inputs, and the
    \* value of is_ember before it
    h_op, h_motion, h_palm, h_pre_ember,
    \* time of the last Auto update_camera call that turned is_ember on
    \* (-1: none since the last cycle() or update_image call)
    h_entered,
    \* time of the last Auto update_camera call whose motion signal was above
    \* EMBER_ENTER, and of the last one that triggered at all (-1: none)
    h_above, h_trig,
    \* time of the last cycle() call (-1: none)
    h_cycled,
    \* ParticleSystem (src/particles.py:9-20): the live count, the parallel
    \* arrays (functions on Slots) and the internal clock
    count, pos_x, pos_y, vel_x, vel_y, life, max_life,
    color_r, color_g, color_b, _phase, _time,
    \* ImageSource: the image its density field was built from (0: none, the
    \* state __init__ leaves when no image was found or decoded)
    field,
    \* record of the last engine call: its name, whether it raised, the
    \* count before it, the dt of an update, and the total weight of the
    \* grids of a spawn_camera (-1 for the other calls)
    e_op, e_raised, e_pre_count, e_dt, e_total,
    \* the buffer the last engine call returned (<<>> when it returned none):
    \* gpu_data of on_draw, in scope from pack_gpu to the end of the frame
    e_ret,
    \* the origin handed to the last recolor_fire_gradient call (<<>> for the
    \* other calls)
    e_origin,
    \* SoulStreamApp (src/main.py:669-670): the source switch and the camera,
    \* "none" until the C key creates it
    use_camera, camera,
    \* Camera (src/camera.py): the _running flag, the position of the capture
    \* thread ("none", "top" of its loop, "body", "exited"), and the number of
    \* the publication its lock-guarded fields hold (0: those of __init__)
    _running, _thread, pub,
    \* how Camera.stop's join ended ("no": stop was never called)
    joined,
    \* the window ("open", "closed"), whether _do_close is scheduled, and the
    \* handler that closed the window ("none", "_do_close", "on_close")
    window, close_pending, closed_by,
    \* on_draw: its position, and the publications its two snapshots of this
    \* frame were copied from (-1: not taken)
    f_pc, f_data, f_hand,
    \* HandTracker (src/hand_tracker.py:37): the smoothed gesture confidence,
    \* in thousandths
    _ema_confidence,
    \* the HandData the last process() call returned (src/hand_tracker.py:8-10)
    hd_detected, hd_is_open_palm,
    \* record of the last process() call: its name, the confidence before it,
    \* whether a hand was found, and the raw open signal of the frame
    t_op, t_pre, t_hand, t_raw,
    \* ImageSource (src/image_source.py:18-28): the sorted image paths, each an
    \* image number, and the index of the current one
    _paths, _index,
    \* the last call made on the image source ("init": none since __init__)
    s_op

ctrlVars == <<mode, is_ember, _ember_since, _last_high, _cycle_start>>
histVars == <<h_op, h_motion, h_palm, h_pre_ember, h_entered, h_above, h_trig,
              h_cycled>>
modeVars == <<ctrlVars, clock, histVars>>
arrayVars == <<pos_x, pos_y, vel_x, vel_y, life, max_life,
               color_r, color_g, color_b, _phase>>
engVars == <<count, arrayVars, _time>>
ecallVars == <<e_op, e_raised, e_pre_count, e_dt, e_total, e_ret, e_origin>>
partVars == <<engVars, field, ecallVars>>
camVars == <<_running, _thread, pub, joined>>
frameVars == <<f_pc, f_data, f_hand>>
appVars == <<use_camera, camera, camVars, window, close_pending, closed_by,
             frameVars>>
handVars == <<_ema_confidence, hd_detected, hd_is_open_palm, t_op, t_pre,
              t_hand, t_raw>>
dirVars == <<_paths, _index, s_op>>
auxVars == <<handVars, dirVars>>
vars == <<modeVars, partVars, appVars, auxVars>>

----------------------------------------------------------------------------
(* Bounds of the model *)

\* the monotonic clock runs from 0 to MaxClock seconds
MaxClock == 6

\* on the still-image path it runs on to MaxImageClock seconds, past one whole
\* period of the time-driven cycle
MaxImageClock == 21

\* update is called with dt in 1..MaxDt ticks while _time + dt <= MaxTime
MaxDt == 2
MaxTime == 2

\* the two particles pack_gpu is studied on have a max_life of LifeSteps and
\* of LifeSteps \div 2 ticks and any remaining life up to it
LifeSteps == 20

\* the capture thread publishes at most MaxPub times
MaxPub == 3

----------------------------------------------------------------------------
(* SoulStreamApp.__init__: the still-image source is primary, no camera yet *)

InitApp ==
    /\ use_camera = FALSE /\ camera = "none"
    /\ _running = FALSE /\ _thread = "none" /\ pub = 0 /\ joined = "no"
    /\ window = "open" /\ close_pending = FALSE /\ closed_by = "none"
    /\ f_pc = "idle" /\ f_data = -1 /\ f_hand = -1

----------------------------------------------------------------------------
(* ModeController *)

MODE_AUTO == 0
MODE_FORCE_HUMANITY == 1
MODE_FORCE_EMBER == 2

\* hundredths of the motion signal
EMBER_ENTER == 6
EMBER_EXIT == 3
\* seconds
EMBER_COOLDOWN == 2

IMAGE_HUMANITY_DURATION == 12
IMAGE_EMBER_DURATION == 8

\* avg_motion samples: below EMBER_EXIT, at it, inside the band, at
\* EMBER_ENTER, above it
MotionSamples == {2, 3, 4, 6, 7}

Record(op, motion, palm) ==
    /\ h_op' = op
    /\ h_motion' = motion
    /\ h_palm' = palm
    /\ h_pre_ember' = is_ember

\* ModeController.__init__
InitCtrl ==
    /\ clock \in 0..MaxClock
    /\ mode = MODE_AUTO
    /\ is_ember = FALSE
    /\ _ember_since = 0
    /\ _last_high = 0
    /\ _cycle_start = clock
    /\ h_op = "init" /\ h_motion = 0 /\ h_palm = FALSE /\ h_pre_ember = FALSE
    /\ h_entered = -1 /\ h_above = -1 /\ h_trig = -1 /\ h_cycled = -1

\* the controller at time 0 in either regime, for the runs of the engine alone
InitCtrl0 ==
    /\ clock = 0
    /\ mode = MODE_AUTO
    /\ is_ember \in BOOLEAN
    /\ _ember_since = 0
    /\ _last_high = 0
    /\ _cycle_start = 0
    /\ h_op = "init" /\ h_motion = 0 /\ h_palm = FALSE /\ h_pre_ember = FALSE
    /\ h_entered = -1 /\ h_above = -1 /\ h_trig = -1 /\ h_cycled = -1

\* time passes between two calls
Tick ==
    /\ clock < MaxClock
    /\ clock' = clock + 1
    /\ h_op' = "tick" /\ h_motion' = 0 /\ h_palm' = FALSE /\ h_pre_ember' = FALSE
    /\ UNCHANGED <<ctrlVars, h_entered, h_above, h_trig, h_cycled>>

\* time passes between two calls on the still-image path
TickImage ==
    /\ clock < MaxImageClock
    /\ clock' = clock + 1
    /\ h_op' = "tick" /\ h_motion' = 0 /\ h_palm' = FALSE /\ h_pre_ember' = FALSE
    /\ UNCHANGED <<ctrlVars, h_entered, h_above, h_trig, h_cycled>>

\* the mutant of cycle that keeps the old cycle start
cycle_KeepsStart ==
    /\ mode' = (mode + 1) % 3
    /\ Record("cycle", 0, FALSE)
    /\ h_entered' = -1
    /\ h_cycled' = clock
    /\ UNCHANGED <<is_ember, _ember_since, _last_high, _cycle_start, clock,
                   h_above, h_trig>>

\* ModeController.cycle
cycle ==
    /\ mode' = (mode + 1) % 3
    /\ _cycle_start' = clock
    /\ Record("cycle", 0, FALSE)
    /\ h_entered' = -1
    /\ h_cycled' = clock
    /\ UNCHANGED <<is_ember, _ember_since, _last_high, clock, h_above, h_trig>>

\* the trigger of line 185
EnterCond(avg_motion, hand_is_open_palm) ==
    avg_motion > EMBER_ENTER \/ hand_is_open_palm

\* the mutant of ExitCond that forgets the cooldown
ExitCond_NoCooldown(ember, avg_motion, hand_is_open_palm, now, last_high) ==
    ember /\ avg_motion < EMBER_EXIT /\ ~hand_is_open_palm

\* the mutant of ExitCond that measures the cooldown in the wrong unit
ExitCond_LongCooldown(ember, avg_motion, hand_is_open_palm, now, last_high) ==
    /\ ember /\ avg_motion < EMBER_EXIT /\ ~hand_is_open_palm
    /\ now - last_high > EMBER_COOLDOWN * 1000

\* the mutant of ExitCond that lets go at the exit threshold itself
ExitCond_AtThreshold(ember, avg_motion, hand_is_open_palm, now, last_high) ==
    /\ ember /\ avg_motion <= EMBER_EXIT /\ ~hand_is_open_palm
    /\ now - last_high > EMBER_COOLDOWN

\* the two nested conditions of lines 191-192
ExitCond(ember, avg_motion, hand_is_open_palm, now, last_high) ==
    /\ ember /\ avg_motion < EMBER_EXIT /\ ~hand_is_open_palm
    /\ now - last_high > EMBER_COOLDOWN

\* the mutant of AutoCamera that stamps _last_high only when it enters
AutoCamera_StaleHigh(avg_motion, now, hand_is_open_palm) ==
    LET trig == EnterCond(avg_motion, hand_is_open_palm)
        lh   == IF trig /\ ~is_ember THEN now ELSE _last_high
        e1   == trig \/ is_ember
    IN  /\ _last_high' = lh
        /\ _ember_since' = IF trig /\ ~is_ember THEN now ELSE _ember_since
        /\ is_ember' = (e1 /\ ~ExitCond(e1, avg_motion, hand_is_open_palm, now, lh))

\* the mutant of AutoCamera that enters on motion alone
AutoCamera_MotionOnly(avg_motion, now, hand_is_open_palm) ==
    LET trig == avg_motion > EMBER_ENTER
        lh   == IF trig THEN now ELSE _last_high
        e1   == trig \/ is_ember
    IN  /\ _last_high' = lh
        /\ _ember_since' = IF trig /\ ~is_ember THEN now ELSE _ember_since
        /\ is_ember' = (e1 /\ ~ExitCond(e1, avg_motion, hand_is_open_palm, now, lh))

\* the Auto branch of update_camera, lines 184-193
AutoCamera(avg_motion, now, hand_is_open_palm) ==
    LET trig == EnterCond(avg_motion, hand_is_open_palm)
        lh   == IF trig THEN now ELSE _last_high
        e1   == trig \/ is_ember
    IN  /\ _last_high' = lh
        /\ _ember_since' = IF trig /\ ~is_ember THEN now ELSE _ember_since
        /\ is_ember' = (e1 /\ ~ExitCond(e1, avg_motion, hand_is_open_palm, now, lh))

\* the mutant of update_camera that stamps the trigger before it looks at mode
update_camera_StampFirst(avg_motion, now, hand_is_open_palm) ==
    /\ IF mode = MODE_FORCE_HUMANITY \/ mode = MODE_FORCE_EMBER
         THEN /\ is_ember' = (mode = MODE_FORCE_EMBER)
              /\ _last_high' = IF EnterCond(avg_motion, hand_is_open_palm)
                                 THEN now ELSE _last_high
              /\ UNCHANGED _ember_since
         ELSE AutoCamera(avg_motion, now, hand_is_open_palm)
    /\ Record("update_camera", avg_motion, hand_is_open_palm)
    /\ h_entered' = IF mode = MODE_AUTO /\ ~is_ember /\ is_ember' THEN now ELSE h_entered
    /\ h_above' = IF mode = MODE_AUTO /\ avg_motion > EMBER_ENTER THEN now ELSE h_above
    /\ h_trig' = IF mode = MODE_AUTO /\ (avg_motion > EMBER_ENTER \/ hand_is_open_palm)
                   THEN now ELSE h_trig
    /\ UNCHANGED <<mode, _cycle_start, clock, h_cycled>>

\* ModeController.update_camera
update_camera(avg_motion, now, hand_is_open_palm) ==
    /\ IF mode = MODE_FORCE_HUMANITY
         THEN is_ember' = FALSE /\ UNCHANGED <<_ember_since, _last_high>>
         ELSE IF mode = MODE_FORCE_EMBER
           THEN is_ember' = TRUE /\ UNCHANGED <<_ember_since, _last_high>>
           ELSE AutoCamera(avg_motion, now, hand_is_open_palm)
    /\ Record("update_camera", avg_motion, hand_is_open_palm)
    /\ h_entered' = IF mode = MODE_AUTO /\ ~is_ember /\ is_ember' THEN now ELSE h_entered
    /\ h_above' = IF mode = MODE_AUTO /\ avg_motion > EMBER_ENTER THEN now ELSE h_above
    /\ h_trig' = IF mode = MODE_AUTO /\ (avg_motion > EMBER_ENTER \/ hand_is_open_palm)
                   THEN now ELSE h_trig
    /\ UNCHANGED <<mode, _cycle_start, clock, h_cycled>>

\* the mutant of update_image that never wraps the elapsed time
update_image_NoWrap(now) ==
    /\ IF mode = MODE_FORCE_HUMANITY
         THEN is_ember' = FALSE
         ELSE IF mode = MODE_FORCE_EMBER
           THEN is_ember' = TRUE
           ELSE is_ember' = (now - _cycle_start >= IMAGE_HUMANITY_DURATION)
    /\ Record("update_image", 0, FALSE)
    /\ h_entered' = -1
    /\ UNCHANGED <<mode, _ember_since, _last_high, _cycle_start, clock, h_above,
                   h_trig, h_cycled>>

\* ModeController.update_image
update_image(now) ==
    /\ IF mode = MODE_FORCE_HUMANITY
         THEN is_ember' = FALSE
         ELSE IF mode = MODE_FORCE_EMBER
           THEN is_ember' = TRUE
           ELSE LET cycle_len == IMAGE_HUMANITY_DURATION + IMAGE_EMBER_DURATION
                    elapsed   == (now - _cycle_start) % cycle_len
                IN  is_ember' = (elapsed >= IMAGE_HUMANITY_DURATION)
    /\ Record("update_image", 0, FALSE)
    /\ h_entered' = -1
    /\ UNCHANGED <<mode, _ember_since, _last_high, _cycle_start, clock, h_above,
                   h_trig, h_cycled>>

UpdateCamera ==
    \E m \in MotionSamples, p \in BOOLEAN : update_camera(m, clock, p)

UpdateImage == update_image(clock)

\* SoulStreamApp._gui_set_mode, the three mode buttons of the menu
_gui_set_mode(m) ==
    /\ mode' = m
    /\ _cycle_start' = clock
    /\ Record("_gui_set_mode", 0, FALSE)
    /\ h_entered' = -1
    /\ UNCHANGED <<is_ember, _ember_since, _last_high, clock, h_above, h_trig,
                   h_cycled>>

GuiSetMode ==
    \E m \in {MODE_AUTO, MODE_FORCE_HUMANITY, MODE_FORCE_EMBER} : _gui_set_mode(m)

----------------------------------------------------------------------------
(* ImageSource: the density field of the loaded image *)

\* default screen size of ImageSource.__init__
SCREEN_W == 1280
SCREEN_H == 720
\* PROCESS_W is 240 in the source (src/image_source.py:6)
PROCESS_W == 2

Min(a, b) == IF a < b THEN a ELSE b
Max(a, b) == IF a > b THEN a ELSE b

\* pixel size of image i: a 16:9 picture, or a square one
ImageW(i) == IF i % 2 = 1 THEN 1280 ELSE 720
ImageH(i) == 720

\* _load, lines 74-77: the picture scaled to fit the screen
FitW(i) ==
    IF SCREEN_W * ImageH(i) <= SCREEN_H * ImageW(i)
      THEN SCREEN_W ELSE (ImageW(i) * SCREEN_H) \div ImageH(i)
FitH(i) ==
    IF SCREEN_W * ImageH(i) <= SCREEN_H * ImageW(i)
      THEN (ImageH(i) * SCREEN_W) \div ImageW(i) ELSE SCREEN_H

\* _load, lines 81-85
GridW(i) == PROCESS_W
GridH(i) == (PROCESS_W * FitH(i)) \div FitW(i)

\* _load, line 122: the colour map, in hundredths
ColorMap(i, gy, gx) ==
    [r |-> (30 + 40 * gx + 10 * i) % 101,
     g |-> (20 + 50 * gy + 15 * i) % 101,
     b |-> (90 + 60 * gx + 25 * gy) % 101]

\* the attributes of the ImageSource object: __init__ sets grid_w = grid_h = 0
\* and _spawn_probs = None (lines 31-35), _load overwrites them unless it
\* returns at line 71
grid_w == IF field = 0 THEN 0 ELSE GridW(field)
grid_h == IF field = 0 THEN 0 ELSE GridH(field)
HasSpawnProbs == field # 0
HasFit == field # 0

\* _load, lines 108-119: the weight of every cell is at least 0.2 * 0.03, so
\* the total is never below 1e-6 and every cell of the grid can be drawn
SpawnCells(i) == 0 .. (GridH(i) * GridW(i) - 1)

\* the random draws of a spawn call: draw 0 takes every uniform variate at the
\* low end of its range, draw 1 at the high end; the k-th particle of a batch
\* uses draw (u + k) % 2
Draws == {0, 1}

\* a uniform draw from [lo, hi]
Uni(lo, hi, d) == IF d % 2 = 0 THEN lo ELSE hi

\* get_spawn_indices, lines 135-138: the cell of draw d, unravelled
SpawnIndex(i, d) ==
    LET c == d % Cardinality(SpawnCells(i))
    IN  [gy |-> c \div GridW(i), gx |-> c % GridW(i)]

\* grid_to_ndc, lines 155-174, in thousandths of an NDC unit
GridToNdc(i, gy, gx, d) ==
    LET cell_w == FitW(i) \div GridW(i)
        cell_h == FitH(i) \div GridH(i)
        offset_x == (SCREEN_W - FitW(i)) \div 2
        offset_y == (SCREEN_H - FitH(i)) \div 2
        px == offset_x + gx * cell_w + cell_w \div 2
                + Uni(-(cell_w \div 2), cell_w \div 2, d)
        py == offset_y + gy * cell_h + cell_h \div 2
                + Uni(-(cell_h \div 2), cell_h \div 2, d + 1)
    IN  [x |-> (2000 * px) \div SCREEN_W - 1000,
         y |-> 1000 - (2000 * py) \div SCREEN_H]

----------------------------------------------------------------------------
(* The camera grids handed to spawn_camera *)

\* CAPTURE_W, CAPTURE_H are 80, 60 in the source (src/camera.py:7)
CAPTURE_W == 2
CAPTURE_H == 1

CamCells == 0 .. (CAPTURE_W * CAPTURE_H - 1)

\* brightness and motion grids, in hundredths: the dark still frame a Camera
\* publishes before its first capture, and a frame with one bright cell and
\* motion in its last cell
CameraGrids ==
    { [brightness |-> [c \in CamCells |-> 0],
       motion     |-> [c \in CamCells |-> 0]],
      [brightness |-> [c \in CamCells |-> IF c = 0 THEN 100 ELSE 0],
       motion     |-> [c \in CamCells |-> IF c = CAPTURE_W * CAPTURE_H - 1 THEN 50 ELSE 0]] }

\* spawn_camera, line 105, times ten
Weights(g) == [c \in CamCells |-> g.brightness[c] * 6 + g.motion[c] * 4]

RECURSIVE SumTo(_, _)
SumTo(f, n) == IF n < 0 THEN 0 ELSE f[n] + SumTo(f, n - 1)

\* spawn_camera, line 107
Total(g) == SumTo(Weights(g), CAPTURE_W * CAPTURE_H - 1)

\* the cells np.random.choice can return under p = flat / total, ascending
Eligible(g) ==
    LET Pos(c) == Weights(g)[c] > 0
    IN  SelectSeq([k \in 1 .. (CAPTURE_W * CAPTURE_H) |-> k - 1], Pos)

\* spawn_camera, lines 112-121: the position of draw d
CameraNdc(g, d) ==
    LET el == Eligible(g)
        c  == el[(d % Len(el)) + 1]
        gy == c \div CAPTURE_W
        gx == c % CAPTURE_W
    IN  [x |-> 1000 - (gx * 2000) \div CAPTURE_W
                 + Uni(-(1000 \div CAPTURE_W), 1000 \div CAPTURE_W, d),
         y |-> 1000 - (gy * 2000) \div CAPTURE_H
                 + Uni(-(1000 \div CAPTURE_H), 1000 \div CAPTURE_H, d + 1)]

----------------------------------------------------------------------------
(* ParticleSystem *)

\* MAX_PARTICLES, SPAWN_PER_FRAME and the palm burst are 25000, 150 and 30 in
\* the source (src/particles.py:3, :4, :160), scaled down here: a batch can
\* fit whole, or be cut by the remaining capacity
MAX_PARTICLES == 3
SPAWN_PER_FRAME == 2
PALM_SPARKS == 2

Slots == 0 .. (MAX_PARTICLES - 1)

\* ParticleSystem.__init__
InitEngine ==
    /\ count = 0
    /\ pos_x = [i \in Slots |-> 0] /\ pos_y = [i \in Slots |-> 0]
    /\ vel_x = [i \in Slots |-> 0] /\ vel_y = [i \in Slots |-> 0]
    /\ life = [i \in Slots |-> 0] /\ max_life = [i \in Slots |-> 1]
    /\ color_r = [i \in Slots |-> 0] /\ color_g = [i \in Slots |-> 0]
    /\ color_b = [i \in Slots |-> 0] /\ _phase = [i \in Slots |-> 0]
    /\ _time = 0

\* ImageSource.__init__: the field of image 1, or none when no image was
\* found or decoded (lines 43-44 and 70-71)
InitSource == field \in {0, 1}

InitCalls ==
    /\ e_op = "init" /\ e_raised = FALSE /\ e_pre_count = 0 /\ e_dt = 0
    /\ e_total = -1
    /\ e_ret = <<>>
    /\ e_origin = <<>>

\* the record of an engine call
Called(op, raised, dt) ==
    /\ e_op' = op
    /\ e_raised' = raised
    /\ e_pre_count' = count
    /\ e_dt' = dt
    /\ e_total' = -1
    /\ e_ret' = <<>>
    /\ e_origin' = <<>>

\* the record of a spawn_camera call on the grids g
CalledCamera(g) ==
    /\ e_op' = "spawn_camera"
    /\ e_raised' = FALSE
    /\ e_pre_count' = count
    /\ e_dt' = 0
    /\ e_total' = Total(g)
    /\ e_ret' = <<>>
    /\ e_origin' = <<>>

\* the mutant of SpawnN that forgets the remaining capacity
SpawnN_Unclipped(budget, cnt) == budget

\* lines 23 and 27 (103, 160): the size of the next batch
SpawnN(budget, cnt) == Min(budget, MAX_PARTICLES - cnt)

\* the colour rule of spawn, lines 44-85, for the sampled colour c
ImageColor(c, ember, d) ==
    IF ember
      THEN IF d % 2 = 1
             THEN [r |-> 100, g |-> 90, b |-> 60]
             ELSE [r |-> Min((c.r * 13) \div 10 + 10, 100),
                   g |-> (c.g * 8) \div 10,
                   b |-> (c.b * 3) \div 10]
      ELSE LET lum   == (299 * c.r + 587 * c.g + 114 * c.b) \div 1000
               desat == Uni(50, 80, d)
               Mix(v) == Max((v * (100 - desat) + lum * desat) \div 100, 15)
           IN  IF d % 4 = 1 THEN [r |-> 100, g |-> 0, b |-> 100]
               ELSE IF d % 4 = 3 THEN [r |-> 29, g |-> 0, b |-> 51]
               ELSE [r |-> Mix(c.r), g |-> Mix(c.g), b |-> Mix(c.b)]

\* one particle of spawn, lines 30-91, from draw d
ImageParticle(ember, d) ==
    LET cell == SpawnIndex(field, d)
        ndc  == GridToNdc(field, cell.gy, cell.gx, d)
        col  == ImageColor(ColorMap(field, cell.gy, cell.gx), ember, d)
        lv   == IF ember THEN Uni(3, 6, d) ELSE Uni(5, 9, d)
    IN  [px |-> ndc.x, py |-> ndc.y,
         vx |-> IF ember THEN Uni(-30, 30, d) ELSE Uni(-5, 5, d),
         vy |-> IF ember THEN Uni(10, 60, d + 1) ELSE Uni(3, 12, d + 1),
         r |-> col.r, g |-> col.g, b |-> col.b,
         life |-> lv, max_life |-> lv, phase |-> Uni(0, 3, d)]

\* one particle of spawn_camera, lines 112-151, from draw d
CameraParticle(g, ember, d) ==
    LET ndc == CameraNdc(g, d)
        t   == Uni(0, 100, d)
        gray == Uni(15, 40, d)
        col == IF ember
                 THEN IF d % 2 = 1
                        THEN [r |-> 100, g |-> 100, b |-> 100]
                        ELSE [r |-> 100, g |-> 27 + (t * 57) \div 100, b |-> 0]
                 ELSE IF d % 4 = 1 THEN [r |-> 100, g |-> 0, b |-> 100]
                 ELSE IF d % 4 = 3 THEN [r |-> 29, g |-> 0, b |-> 51]
                 ELSE [r |-> gray, g |-> gray, b |-> gray]
        lv  == Uni(2, 6, d)
    IN  [px |-> ndc.x, py |-> ndc.y,
         vx |-> IF ember THEN Uni(-75, 75, d) ELSE Uni(-15, 15, d),
         vy |-> IF ember THEN Uni(25, 175, d + 1) ELSE Uni(5, 40, d + 1),
         r |-> col.r, g |-> col.g, b |-> col.b,
         life |-> lv, max_life |-> lv, phase |-> Uni(0, 3, d)]

\* one particle of spawn_palm_sparks, lines 165-182, from draw d
PalmParticle(palm, d) ==
    LET t  == Uni(0, 100, d)
        lv == Uni(1, 2, d)
    IN  [px |-> palm.x + Uni(-50, 50, d), py |-> palm.y + Uni(-50, 50, d + 1),
         vx |-> Uni(-50, 50, d), vy |-> Uni(75, 250, d + 1),
         r |-> 100,
         g |-> IF d % 2 = 1 THEN 100 ELSE 55 + (t * 29) \div 100,
         b |-> IF d % 2 = 1 THEN 90 ELSE 0,
         life |-> lv, max_life |-> lv, phase |-> Uni(0, 3, d)]

\* the mutant of Fill that writes arr[:n], over the live particles
Fill_FromStart(arr, s, n, vals) ==
    [i \in Slots |-> IF i < n THEN vals[i] ELSE arr[i]]

\* arr[s:e] = vals, for the n values vals[k], k in 0..n-1
Fill(arr, s, n, vals) ==
    [i \in Slots |-> IF s <= i /\ i < s + n THEN vals[i - s] ELSE arr[i]]

\* the writes of a spawn call: the slice s:e of every array, then count = e
Store(n, b) ==
    LET s == count
        K == 0 .. (n - 1)
    IN  /\ pos_x' = Fill(pos_x, s, n, [k \in K |-> b[k].px])
        /\ pos_y' = Fill(pos_y, s, n, [k \in K |-> b[k].py])
        /\ vel_x' = Fill(vel_x, s, n, [k \in K |-> b[k].vx])
        /\ vel_y' = Fill(vel_y, s, n, [k \in K |-> b[k].vy])
        /\ life' = Fill(life, s, n, [k \in K |-> b[k].life])
        /\ max_life' = Fill(max_life, s, n, [k \in K |-> b[k].max_life])
        /\ color_r' = Fill(color_r, s, n, [k \in K |-> b[k].r])
        /\ color_g' = Fill(color_g, s, n, [k \in K |-> b[k].g])
        /\ color_b' = Fill(color_b, s, n, [k \in K |-> b[k].b])
        /\ _phase' = Fill(_phase, s, n, [k \in K |-> b[k].phase])
        /\ count' = s + n
        /\ UNCHANGED _time


\* the mutant of spawn that samples the image source before it looks at the
\* remaining capacity
spawn_SampleFirst(ember, u) ==
    /\ IF field = 0
         THEN UNCHANGED engVars /\ Called("spawn", TRUE, 0)
         ELSE IF MAX_PARTICLES - count <= 0
           THEN UNCHANGED engVars /\ Called("spawn", FALSE, 0)
           ELSE LET n == SpawnN(SPAWN_PER_FRAME, count)
                    b == [k \in 0 .. (n - 1) |-> ImageParticle(ember, u + k)]
                IN  Store(n, b) /\ Called("spawn", FALSE, 0)
    /\ UNCHANGED field

\* ParticleSystem.spawn.  With no field loaded get_spawn_indices returns zeros
\* and grid_to_ndc raises at line 155 (_fit_w was never set), before any write.
spawn(ember, u) ==
    /\ IF MAX_PARTICLES - count <= 0
         THEN UNCHANGED engVars /\ Called("spawn", FALSE, 0)
         ELSE IF field = 0
           THEN UNCHANGED engVars /\ Called("spawn", TRUE, 0)
           ELSE LET n == SpawnN(SPAWN_PER_FRAME, count)
                    b == [k \in 0 .. (n - 1) |-> ImageParticle(ember, u + k)]
                IN  Store(n, b) /\ Called("spawn", FALSE, 0)
    /\ UNCHANGED field

\* ParticleSystem.spawn_camera; Total is in thousandths, so line 108 reads
\* Total / 1000 < 1e-6
spawn_camera(g, ember, u) ==
    /\ IF MAX_PARTICLES - count <= 0
         THEN UNCHANGED engVars
         ELSE IF Total(g) * 1000 < 1
           THEN UNCHANGED engVars
           ELSE LET n == SpawnN(SPAWN_PER_FRAME, count)
                    b == [k \in 0 .. (n - 1) |-> CameraParticle(g, ember, u + k)]
                IN  Store(n, b)
    /\ CalledCamera(g)
    /\ UNCHANGED field

\* ParticleSystem.spawn_palm_sparks
spawn_palm_sparks(palm, u) ==
    /\ IF MAX_PARTICLES - count <= 0
         THEN UNCHANGED engVars
         ELSE LET n == SpawnN(PALM_SPARKS, count)
                  b == [k \in 0 .. (n - 1) |-> PalmParticle(palm, u + k)]
              IN  Store(n, b)
    /\ Called("spawn_palm_sparks", FALSE, 0)
    /\ UNCHANGED field

\* the integer square root, capped at cap
ISqrt(v, cap) ==
    IF v >= cap * cap THEN cap
    ELSE CHOOSE r \in 0 .. cap : r * r <= v /\ v < (r + 1) * (r + 1)

\* lines 191-203: the green channel at (x, y) for the origin palm, hundredths
FireGreen(x, y, palm) ==
    LET dx == x - palm.x
        dy == y - palm.y
        t  == ISqrt((dx * dx + dy * dy) \div 100, 100)
        hermite == (300 * t * t - 2 * t * t * t) \div 10000
    IN  100 - (73 * hermite) \div 100

\* the mutant of recolor_fire_gradient that paints every slot, not only [:n]
recolor_fire_gradient_AllSlots(palm) ==
    /\ IF count = 0
         THEN UNCHANGED <<color_r, color_g, color_b>>
         ELSE /\ color_r' = [i \in Slots |-> 100]
              /\ color_g' = [i \in Slots |-> FireGreen(pos_x[i], pos_y[i], palm)]
              /\ color_b' = [i \in Slots |-> 0]
    /\ e_op' = "recolor_fire_gradient" /\ e_raised' = FALSE
    /\ e_pre_count' = count /\ e_dt' = 0 /\ e_total' = -1 /\ e_ret' = <<>>
    /\ e_origin' = palm
    /\ UNCHANGED <<count, pos_x, pos_y, vel_x, vel_y, life, max_life, _phase,
                   _time, field>>

\* the mutant of recolor_fire_gradient that blends the gradient into the
\* green the particle already had
recolor_fire_gradient_Blend(palm) ==
    /\ IF count = 0
         THEN UNCHANGED <<color_r, color_g, color_b>>
         ELSE /\ color_r' = [i \in Slots |-> IF i < count THEN 100 ELSE color_r[i]]
              /\ color_g' = [i \in Slots |->
                    IF i < count
                      THEN (color_g[i] + FireGreen(pos_x[i], pos_y[i], palm)) \div 2
                      ELSE color_g[i]]
              /\ color_b' = [i \in Slots |-> IF i < count THEN 0 ELSE color_b[i]]
    /\ e_op' = "recolor_fire_gradient" /\ e_raised' = FALSE
    /\ e_pre_count' = count /\ e_dt' = 0 /\ e_total' = -1 /\ e_ret' = <<>>
    /\ e_origin' = palm
    /\ UNCHANGED <<count, pos_x, pos_y, vel_x, vel_y, life, max_life, _phase,
                   _time, field>>

\* ParticleSystem.recolor_fire_gradient
recolor_fire_gradient(palm) ==
    /\ IF count = 0
         THEN UNCHANGED <<color_r, color_g, color_b>>
         ELSE /\ color_r' = [i \in Slots |-> IF i < count THEN 100 ELSE color_r[i]]
              /\ color_g' = [i \in Slots |->
                    IF i < count THEN FireGreen(pos_x[i], pos_y[i], palm)
                    ELSE color_g[i]]
              /\ color_b' = [i \in Slots |-> IF i < count THEN 0 ELSE color_b[i]]
    /\ e_op' = "recolor_fire_gradient" /\ e_raised' = FALSE
    /\ e_pre_count' = count /\ e_dt' = 0 /\ e_total' = -1 /\ e_ret' = <<>>
    /\ e_origin' = palm
    /\ UNCHANGED <<count, pos_x, pos_y, vel_x, vel_y, life, max_life, _phase,
                   _time, field>>

\* sin at the quarter turns; the angle time * 2 + phase counted in quarters
SinQ(a) == CASE a % 4 = 1 -> 1 [] a % 4 = 3 -> -1 [] OTHER -> 0

\* lines 217-218: the wobble, amplitude 0.025 or 0.012 per second
Wobble(t, ph, ember) == SinQ(t + ph) * (IF ember THEN 12 ELSE 6)

\* the mutant of AliveIdx that keeps a particle whose life is exactly 0
AliveIdx_KeepZero(lf, n) ==
    LET Alive(i) == lf[i] >= 0
    IN  SelectSeq([k \in 1 .. n |-> k - 1], Alive)

\* lines 225 and 228: np.where(life[:n] > 0.0)[0]
AliveIdx(lf, n) ==
    LET Alive(i) == lf[i] > 0
    IN  SelectSeq([k \in 1 .. n |-> k - 1], Alive)

\* the mutant of Compact that lowers count without moving the survivors
Compact_NoMove(arr, alive_idx) == arr

\* line 234: arr[:new_count] = arr[alive_idx]
Compact(arr, alive_idx) ==
    [i \in Slots |-> IF i < Len(alive_idx) THEN arr[alive_idx[i + 1]] ELSE arr[i]]

\* lines 219-222 on the slice :n
IntegrateX(dt, ember) ==
    [i \in Slots |->
        IF i < count
          THEN pos_x[i] + (vel_x[i] + Wobble(_time + dt, _phase[i], ember)) * dt
          ELSE pos_x[i]]
IntegrateY(dt) ==
    [i \in Slots |-> IF i < count THEN pos_y[i] + vel_y[i] * dt ELSE pos_y[i]]
\* the mutant of Age that leaves every life as it is
Age_Frozen(dt) == life
Age(dt) ==
    [i \in Slots |-> IF i < count THEN life[i] - dt ELSE life[i]]

\* ParticleSystem.update
update(dt, ember) ==
    /\ IF count = 0
         THEN UNCHANGED engVars
         ELSE LET px1 == IntegrateX(dt, ember)
                  py1 == IntegrateY(dt)
                  lf1 == Age(dt)
                  alive_idx == AliveIdx(lf1, count)
                  new_count == Len(alive_idx)
              IN  /\ _time' = _time + dt
                  /\ IF count - new_count > 0
                       THEN /\ pos_x' = Compact(px1, alive_idx)
                            /\ pos_y' = Compact(py1, alive_idx)
                            /\ vel_x' = Compact(vel_x, alive_idx)
                            /\ vel_y' = Compact(vel_y, alive_idx)
                            /\ life' = Compact(lf1, alive_idx)
                            /\ max_life' = Compact(max_life, alive_idx)
                            /\ color_r' = Compact(color_r, alive_idx)
                            /\ color_g' = Compact(color_g, alive_idx)
                            /\ color_b' = Compact(color_b, alive_idx)
                            /\ _phase' = Compact(_phase, alive_idx)
                            /\ count' = new_count
                       ELSE /\ pos_x' = px1 /\ pos_y' = py1 /\ life' = lf1
                            /\ UNCHANGED <<vel_x, vel_y, max_life, color_r,
                                           color_g, color_b, _phase, count>>
    /\ Called("update", FALSE, dt)
    /\ UNCHANGED field

\* the mutant of PackAlpha without the fade-in branch
PackAlpha_NoFadeIn(lf, ml) ==
    LET ratio == (lf * 1000) \div ml
    IN  Max(0, Min((ratio * 1000) \div 850, 1000))

\* lines 243-250 for one particle: alpha and size in thousandths
PackAlpha(lf, ml) ==
    LET ratio == (lf * 1000) \div ml
        a == IF ratio > 850 THEN ((1000 - ratio) * 1000) \div 150
                            ELSE (ratio * 1000) \div 850
    IN  Max(0, Min(a, 1000))
PackSize(lf, ml) == 1500 + ((lf * 1000) \div ml) * 4

\* the mutant of PackBuf that writes size before alpha
PackBuf_SizeFirst ==
    [j \in 0 .. (7 * count - 1) |->
        LET i == j \div 7
        IN  CASE j % 7 = 0 -> pos_x[i]
              [] j % 7 = 1 -> pos_y[i]
              [] j % 7 = 2 -> color_r[i]
              [] j % 7 = 3 -> color_g[i]
              [] j % 7 = 4 -> color_b[i]
              [] j % 7 = 5 -> PackSize(life[i], max_life[i])
              [] OTHER -> PackAlpha(life[i], max_life[i])]

\* the buffer pack_gpu returns: 7 values per live particle
PackBuf ==
    [j \in 0 .. (7 * count - 1) |->
        LET i == j \div 7
        IN  CASE j % 7 = 0 -> pos_x[i]
              [] j % 7 = 1 -> pos_y[i]
              [] j % 7 = 2 -> color_r[i]
              [] j % 7 = 3 -> color_g[i]
              [] j % 7 = 4 -> color_b[i]
              [] j % 7 = 5 -> PackAlpha(life[i], max_life[i])
              [] OTHER -> PackSize(life[i], max_life[i])]

\* the mutant of pack_gpu that empties the engine once the buffer is packed
pack_gpu_Flush ==
    /\ e_op' = "pack_gpu" /\ e_raised' = FALSE /\ e_pre_count' = count
    /\ e_dt' = 0 /\ e_total' = -1
    /\ e_ret' = PackBuf
    /\ e_origin' = <<>>
    /\ count' = 0
    /\ UNCHANGED <<arrayVars, _time, field>>

\* ParticleSystem.pack_gpu: reads the engine, writes nothing, returns the
\* buffer (the empty one when count = 0)
pack_gpu ==
    /\ e_op' = "pack_gpu" /\ e_raised' = FALSE /\ e_pre_count' = count
    /\ e_dt' = 0 /\ e_total' = -1
    /\ e_ret' = PackBuf
    /\ e_origin' = <<>>
    /\ UNCHANGED <<engVars, field>>

----------------------------------------------------------------------------
(* HandTracker: the smoothed open-palm confidence *)

\* HandTracker.__init__ (line 37), before any frame was processed
InitHand ==
    /\ _ema_confidence = 0
    /\ hd_detected = FALSE /\ hd_is_open_palm = FALSE
    /\ t_op = "init" /\ t_pre = 0 /\ t_hand = FALSE /\ t_raw = 0

\* lines 50 and 78: confidence * 0.7 + raw * 0.3, in thousandths
Ema(c, raw) == (c * 7) \div 10 + raw * 300

\* HandTracker.process on a frame: has_hand tells whether the landmarker found
\* a hand (line 49), open whether all five fingers are extended (line 77)
process(has_hand, open) ==
    LET raw == IF open THEN 1 ELSE 0
    IN  /\ IF ~has_hand
             THEN /\ _ema_confidence' = (_ema_confidence * 7) \div 10
                  /\ hd_detected' = FALSE /\ hd_is_open_palm' = FALSE
                  /\ t_raw' = 0
             ELSE /\ _ema_confidence' = Ema(_ema_confidence, raw)
                  /\ hd_detected' = TRUE
                  /\ hd_is_open_palm' = (_ema_confidence' > 500)
                  /\ t_raw' = raw
        /\ t_op' = "process" /\ t_pre' = _ema_confidence /\ t_hand' = has_hand

\* Camera._capture_loop hands every frame it read to the tracker
\* (src/camera.py:38)
Process == \E has_hand \in BOOLEAN, open \in BOOLEAN : process(has_hand, open)

----------------------------------------------------------------------------
(* ImageSource: the image list *)

\* ImageSource.__init__ (lines 18-28) for the sources of the specifications
\* above: one image when a field was built, none otherwise
InitPaths ==
    /\ _index = 0 /\ _paths = IF field = 0 THEN <<>> ELSE <<1>>
    /\ s_op = "init"

\* cv2.imread (line 69) returns None for a file it cannot decode: image 3 is
\* such a file, images 1 and 2 are pictures
Decodable(i) == i # 3

\* the image directories: empty, one picture, two pictures, and two with an
\* undecodable file among the pictures
Dirs == {<<>>, <<1>>, <<1, 2>>, <<1, 3, 2>>, <<3, 1>>}

\* ImageSource.__init__ on a directory of Dirs: the first path is loaded
InitDir ==
    /\ _paths \in Dirs /\ _index = 0
    /\ field = IF _paths # <<>> /\ Decodable(_paths[1]) THEN _paths[1] ELSE 0
    /\ s_op = "init"

\* ImageSource.image_name: the image at the current index (0: "(no images)")
image_name == IF _paths = <<>> THEN 0 ELSE _paths[_index + 1]

\* ImageSource._load: the field of the picture at path, or nothing at all
\* when imread returned None (lines 69-71)
_load(path) == field' = IF Decodable(path) THEN path ELSE field

\* ImageSource.next_image
next_image ==
    /\ IF _paths = <<>>
         THEN UNCHANGED <<_index, field>>
         ELSE /\ _index' = (_index + 1) % Len(_paths)
              /\ _load(_paths[_index' + 1])
    /\ s_op' = "next_image"
    /\ UNCHANGED _paths

\* ImageSource.prev_image
prev_image ==
    /\ IF _paths = <<>>
         THEN UNCHANGED <<_index, field>>
         ELSE /\ _index' = (_index - 1) % Len(_paths)
              /\ _load(_paths[_index' + 1])
    /\ s_op' = "prev_image"
    /\ UNCHANGED _paths

\* the screen points handed to the palm burst and to the recolor
PalmPoints == {[x |-> 500, y |-> -500]}

\* on_draw hands the controller's regime to spawn, spawn_camera and update
\* (src/main.py:1113, 1126, 1128)
Spawn == \E u \in Draws : spawn(is_ember, u)
SpawnCamera == \E g \in CameraGrids, u \in Draws : spawn_camera(g, is_ember, u)
SpawnPalmSparks == \E p \in PalmPoints, u \in Draws : spawn_palm_sparks(p, u)
Recolor == \E p \in PalmPoints : recolor_fire_gradient(p)
Update ==
    \E dt \in 1 .. MaxDt :
        /\ count > 0 => _time + dt <= MaxTime
        /\ update(dt, is_ember)
PackGpu == pack_gpu

NextParticles ==
    \/ Spawn /\ UNCHANGED <<modeVars, appVars>> /\ UNCHANGED auxVars
    \/ SpawnCamera /\ UNCHANGED <<modeVars, appVars>> /\ UNCHANGED auxVars
    \/ SpawnPalmSparks /\ UNCHANGED <<modeVars, appVars>> /\ UNCHANGED auxVars
    \/ Recolor /\ UNCHANGED <<modeVars, appVars>> /\ UNCHANGED auxVars
    \/ Update /\ UNCHANGED <<modeVars, appVars>> /\ UNCHANGED auxVars
    \/ PackGpu /\ UNCHANGED <<modeVars, appVars>> /\ UNCHANGED auxVars

\* the particle engine alone, under every order of calls of its entry points
InitParticles == InitCtrl0 /\ InitEngine /\ InitSource /\ InitCalls /\ InitApp /\ InitHand /\ InitPaths

SpecParticles == InitParticles /\ [][NextParticles]_vars

\* the palm centres a hand can be reported at (src/main.py:1115 hands
\* hand.palm_ndc_x, hand.palm_ndc_y to the recolor)
Origins == {[x |-> 500, y |-> -500], [x |-> -400, y |-> 300]}
RecolorAt == \E p \in Origins : recolor_fire_gradient(p)

NextRecolor ==
    \/ Spawn /\ UNCHANGED <<modeVars, appVars>> /\ UNCHANGED auxVars
    \/ SpawnPalmSparks /\ UNCHANGED <<modeVars, appVars>> /\ UNCHANGED auxVars
    \/ RecolorAt /\ UNCHANGED <<modeVars, appVars>> /\ UNCHANGED auxVars
    \/ Update /\ UNCHANGED <<modeVars, appVars>> /\ UNCHANGED auxVars

\* the engine recoloured from any of the origins, between spawns and updates
InitRecolor == InitCtrl0 /\ InitEngine /\ InitSource /\ InitCalls /\ InitApp /\ InitHand /\ InitPaths

SpecRecolor == InitRecolor /\ [][NextRecolor]_vars

\* the RIGHT and LEFT keys and the two image buttons of the menu
\* (src/main.py:815-823, 921-928), between the spawns and updates of frames
NextSource ==
    \/ next_image /\ UNCHANGED <<modeVars, engVars, ecallVars, appVars, handVars>>
    \/ prev_image /\ UNCHANGED <<modeVars, engVars, ecallVars, appVars, handVars>>
    \/ Spawn /\ UNCHANGED <<modeVars, appVars, auxVars>>
    \/ Update /\ UNCHANGED <<modeVars, appVars, auxVars>>

\* the image source over every directory, with the engine it feeds
InitSourceAll == InitCtrl0 /\ InitEngine /\ InitDir /\ InitCalls /\ InitApp /\ InitHand

SpecSource == InitSourceAll /\ [][NextSource]_vars

\* the longest lifetime a spawn call hands out: 4.5 s, in ticks
\* (src/particles.py:87)
LongestLife == 9

\* the clock value no particle spawned before MaxTime can live to see
DrainTime == MaxTime + LongestLife

\* the frame loop's update with its fixed dt of one tick
DrainUpdate ==
    /\ _time < DrainTime
    /\ update(1, is_ember)

\* spawn and recolor calls come in any number and order until the engine
\* clock reaches MaxTime, and stop then; update goes on
NextDrain ==
    \/ _time < MaxTime /\ Spawn /\ UNCHANGED <<modeVars, appVars, auxVars>>
    \/ _time < MaxTime /\ SpawnCamera /\ UNCHANGED <<modeVars, appVars, auxVars>>
    \/ _time < MaxTime /\ SpawnPalmSparks /\ UNCHANGED <<modeVars, appVars, auxVars>>
    \/ _time < MaxTime /\ Recolor /\ UNCHANGED <<modeVars, appVars, auxVars>>
    \/ DrainUpdate /\ UNCHANGED <<modeVars, appVars, auxVars>>

InitDrain == InitCtrl0 /\ InitEngine /\ InitSource /\ InitCalls /\ InitApp /\ InitHand /\ InitPaths

\* on_draw calls update on every frame (src/main.py:1128): the update step is
\* taken again and again
SpecDrain ==
    /\ InitDrain /\ [][NextDrain]_vars
    /\ WF_vars(DrainUpdate /\ UNCHANGED <<modeVars, appVars, auxVars>>)

NextHand ==
    \/ Process /\ UNCHANGED <<modeVars, partVars, appVars, dirVars>>

\* the tracker alone, over every sequence of frames
InitHandAll == InitCtrl0 /\ InitEngine /\ field = 0 /\ InitCalls /\ InitApp /\ InitHand /\ InitPaths

SpecHand == InitHandAll /\ [][NextHand]_vars

NextMode ==
    \/ Tick /\ UNCHANGED <<partVars, appVars>> /\ UNCHANGED auxVars
    \/ cycle /\ UNCHANGED <<partVars, appVars>> /\ UNCHANGED auxVars
    \/ UpdateCamera /\ UNCHANGED <<partVars, appVars>> /\ UNCHANGED auxVars
    \/ UpdateImage /\ UNCHANGED <<partVars, appVars>> /\ UNCHANGED auxVars

\* the regime controller alone, under every call order and timing
InitMode == InitCtrl /\ InitEngine /\ field = 0 /\ InitCalls /\ InitApp /\ InitHand /\ InitPaths

SpecMode == InitMode /\ [][NextMode]_vars

NextImage ==
    \/ TickImage /\ UNCHANGED <<partVars, appVars>> /\ UNCHANGED auxVars
    \/ cycle /\ UNCHANGED <<partVars, appVars>> /\ UNCHANGED auxVars
    \/ GuiSetMode /\ UNCHANGED <<partVars, appVars>> /\ UNCHANGED auxVars
    \/ UpdateImage /\ UNCHANGED <<partVars, appVars>> /\ UNCHANGED auxVars

\* the regime controller on the still-image path, over more than one period
InitImage == InitCtrl /\ InitEngine /\ field = 1 /\ InitCalls /\ InitApp /\ InitHand /\ InitPaths

SpecImage == InitImage /\ [][NextImage]_vars

\* an engine holding two particles part of the way through their lives, as
\* spawn and update leave them: life in 1..max_life
InitAged ==
    /\ count = 2
    /\ max_life = [i \in Slots |-> IF i = 0 THEN LifeSteps
                                   ELSE IF i = 1 THEN LifeSteps \div 2 ELSE 1]
    /\ life \in [Slots -> 0 .. LifeSteps]
    /\ \A i \in Slots : IF i < count THEN life[i] >= 1 /\ life[i] <= max_life[i]
                                     ELSE life[i] = 0
    /\ pos_x = [i \in Slots |-> 0] /\ pos_y = [i \in Slots |-> 0]
    /\ vel_x = [i \in Slots |-> 0] /\ vel_y = [i \in Slots |-> 0]
    /\ color_r = [i \in Slots |-> 0] /\ color_g = [i \in Slots |-> 0]
    /\ color_b = [i \in Slots |-> 0] /\ _phase = [i \in Slots |-> 0]
    /\ _time = 0

NextPack ==
    \/ Update /\ UNCHANGED <<modeVars, appVars>> /\ UNCHANGED auxVars
    \/ PackGpu /\ UNCHANGED <<modeVars, appVars>> /\ UNCHANGED auxVars

\* pack_gpu over the whole range of life / max_life
InitPack == InitCtrl0 /\ InitAged /\ field = 1 /\ InitCalls /\ InitApp /\ InitHand /\ InitPaths

SpecPack == InitPack /\ [][NextPack]_vars

----------------------------------------------------------------------------
(* The application: the keys, the capture thread and the frame loop *)

\* what the b-th pass of the capture loop publishes (lines 55-61); pass 0 is
\* the state Camera.__init__ leaves: dark still grids, no hand
GridsOf(b) == CHOOSE g \in CameraGrids : (Total(g) > 0) = (b % 2 = 1)

\* line 50: avg_m = float(np.mean(diff))
AvgMotionOf(b) ==
    SumTo(GridsOf(b).motion, CAPTURE_W * CAPTURE_H - 1) \div (CAPTURE_W * CAPTURE_H)

\* HandData (src/hand_tracker.py:8-12): an open palm on the odd passes
HandOf(b) ==
    IF b % 2 = 1
      THEN [detected |-> TRUE, is_open_palm |-> TRUE,
            palm |-> CHOOSE p \in PalmPoints : TRUE]
      ELSE [detected |-> FALSE, is_open_palm |-> FALSE, palm |-> [x |-> 0, y |-> 0]]

\* the C key and the camera button of the menu (lines 904-913, 805-813)
ToggleCamera ==
    /\ window = "open" /\ f_pc = "idle"
    /\ IF use_camera
         THEN use_camera' = FALSE /\ UNCHANGED <<camera, camVars>>
         ELSE /\ use_camera' = TRUE
              /\ IF camera = "none"
                   THEN /\ camera' = "created"
                        /\ _running' = TRUE /\ _thread' = "top" /\ pub' = 0
                        /\ UNCHANGED joined
                   ELSE UNCHANGED <<camera, camVars>>
    /\ UNCHANGED <<window, close_pending, closed_by, frameVars>>

\* Camera._capture_loop, line 32: the test of the while loop; the daemon
\* thread runs for as long as the process does, whatever the window's state
CaptureTest ==
    /\ _thread = "top"
    /\ _thread' = IF _running THEN "body" ELSE "exited"
    /\ UNCHANGED <<use_camera, camera, _running, pub, joined, window,
                   close_pending, closed_by, frameVars>>

\* lines 33-61: one pass of the loop; it publishes under the lock unless the
\* read failed
CapturePass ==
    /\ _thread = "body"
    /\ _thread' = "top"
    /\ \E ok \in BOOLEAN : pub' = IF ok /\ pub < MaxPub THEN pub + 1 ELSE pub
    /\ UNCHANGED <<use_camera, camera, _running, joined, window,
                   close_pending, closed_by, frameVars>>

\* the ESC key with the menu hidden (lines 891-898)
KeyEscape ==
    /\ window = "open" /\ f_pc = "idle"
    /\ close_pending' = TRUE
    /\ UNCHANGED <<use_camera, camera, camVars, window, closed_by, frameVars>>

\* the Quit button of the menu (lines 854-857)
_gui_quit ==
    /\ window = "open" /\ f_pc = "idle"
    /\ close_pending' = TRUE
    /\ UNCHANGED <<use_camera, camera, camVars, window, closed_by, frameVars>>

\* Camera.stop (src/camera.py:79-83): the flag is cleared, then join waits at
\* most 2 s: a thread at the loop test exits, one inside a pass may outlast it
stop ==
    /\ _running' = FALSE
    /\ \E done \in BOOLEAN :
          /\ done \/ _thread = "body"
          /\ joined' = IF done \/ _thread = "exited" THEN "joined" ELSE "timed_out"
          /\ _thread' = IF done THEN "exited" ELSE _thread
    /\ UNCHANGED pub

\* SoulStreamApp._do_close, run by the clock once it was scheduled
_do_close ==
    /\ window = "open" /\ f_pc = "idle" /\ close_pending
    /\ IF camera # "none" THEN stop ELSE UNCHANGED camVars
    /\ window' = "closed" /\ closed_by' = "_do_close"
    /\ close_pending' = FALSE
    /\ UNCHANGED <<use_camera, camera, frameVars>>

\* SoulStreamApp.on_close, the close button of the window (lines 1195-1197)
on_close ==
    /\ window = "open" /\ f_pc = "idle"
    /\ window' = "closed" /\ closed_by' = "on_close"
    /\ UNCHANGED <<use_camera, camera, camVars, close_pending, frameVars>>

\* the other application variables of a step of on_draw
FrameKeeps == UNCHANGED <<use_camera, camera, camVars, window, close_pending,
                          closed_by>>

\* on_draw, line 1110: camera.get_data() copies the grids under the lock
FrameGetData ==
    /\ window = "open" /\ f_pc = "idle" /\ use_camera /\ camera # "none"
    /\ f_data' = pub /\ f_hand' = -1 /\ f_pc' = "cam_data"
    /\ FrameKeeps /\ UNCHANGED <<modeVars, partVars>>

\* line 1111: camera.get_hand_data() takes the lock again
FrameGetHandData ==
    /\ f_pc = "cam_data"
    /\ f_hand' = pub /\ f_pc' = "cam_hand"
    /\ FrameKeeps /\ UNCHANGED <<f_data, modeVars, partVars>>

\* line 1112
FrameUpdateCamera ==
    /\ f_pc = "cam_hand"
    /\ update_camera(AvgMotionOf(f_data), clock, HandOf(f_hand).is_open_palm)
    /\ f_pc' = "cam_ctrl"
    /\ FrameKeeps /\ UNCHANGED <<f_data, f_hand, partVars>>

\* lines 1113-1114
FrameSpawnCamera ==
    /\ f_pc = "cam_ctrl"
    /\ \E u \in Draws : spawn_camera(GridsOf(f_data), is_ember, u)
    /\ f_pc' = IF HandOf(f_hand).detected /\ HandOf(f_hand).is_open_palm
                 THEN "cam_palm" ELSE "sim"
    /\ FrameKeeps /\ UNCHANGED <<f_data, f_hand, modeVars>>

\* line 1115
FrameRecolor ==
    /\ f_pc = "cam_palm"
    /\ recolor_fire_gradient(HandOf(f_hand).palm)
    /\ f_pc' = "cam_burst"
    /\ FrameKeeps /\ UNCHANGED <<f_data, f_hand, modeVars>>

\* line 1116
FrameSpawnPalmSparks ==
    /\ f_pc = "cam_burst"
    /\ \E u \in Draws : spawn_palm_sparks(HandOf(f_hand).palm, u)
    /\ f_pc' = "sim"
    /\ FrameKeeps /\ UNCHANGED <<f_data, f_hand, modeVars>>

\* line 1125, the still-image path
FrameUpdateImage ==
    /\ window = "open" /\ f_pc = "idle" /\ ~(use_camera /\ camera # "none")
    /\ update_image(clock)
    /\ f_data' = -1 /\ f_hand' = -1 /\ f_pc' = "img_ctrl"
    /\ FrameKeeps /\ UNCHANGED partVars

\* line 1126; an exception leaves on_draw and ends the event loop
FrameSpawn ==
    /\ f_pc = "img_ctrl"
    /\ \E u \in Draws : spawn(is_ember, u)
    /\ f_pc' = IF e_raised' THEN "raised" ELSE "sim"
    /\ FrameKeeps /\ UNCHANGED <<f_data, f_hand, modeVars>>

\* line 1128: dt is one tick
FrameUpdate ==
    /\ f_pc = "sim"
    /\ count > 0 => _time + 1 <= MaxTime
    /\ update(1, is_ember)
    /\ f_pc' = "pack"
    /\ FrameKeeps /\ UNCHANGED <<f_data, f_hand, modeVars>>

\* line 1132
FramePackGpu ==
    /\ f_pc = "pack"
    /\ pack_gpu
    /\ f_pc' = "idle"
    /\ FrameKeeps /\ UNCHANGED <<f_data, f_hand, modeVars>>

NextApp ==
    \/ ToggleCamera /\ UNCHANGED <<modeVars, partVars>> /\ UNCHANGED auxVars
    \/ CaptureTest /\ UNCHANGED <<modeVars, partVars>> /\ UNCHANGED auxVars
    \/ CapturePass /\ UNCHANGED <<modeVars, partVars>> /\ UNCHANGED auxVars
    \/ KeyEscape /\ UNCHANGED <<modeVars, partVars>> /\ UNCHANGED auxVars
    \/ _gui_quit /\ UNCHANGED <<modeVars, partVars>> /\ UNCHANGED auxVars
    \/ _do_close /\ UNCHANGED <<modeVars, partVars>> /\ UNCHANGED auxVars
    \/ on_close /\ UNCHANGED <<modeVars, partVars>> /\ UNCHANGED auxVars
    \/ FrameGetData /\ UNCHANGED auxVars
    \/ FrameGetHandData /\ UNCHANGED auxVars
    \/ FrameUpdateCamera /\ UNCHANGED auxVars
    \/ FrameSpawnCamera /\ UNCHANGED auxVars
    \/ FrameRecolor /\ UNCHANGED auxVars
    \/ FrameSpawnPalmSparks /\ UNCHANGED auxVars
    \/ FrameUpdateImage /\ UNCHANGED auxVars
    \/ FrameSpawn /\ UNCHANGED auxVars
    \/ FrameUpdate /\ UNCHANGED auxVars
    \/ FramePackGpu /\ UNCHANGED auxVars

\* the whole application: the frame loop against the capture thread
InitAppAll == InitCtrl0 /\ ~is_ember /\ InitEngine /\ InitSource /\ InitCalls /\ InitApp /\ InitHand /\ InitPaths

SpecApp == InitAppAll /\ [][NextApp]_vars

----------------------------------------------------------------------------
(* Claims about the regime controller, checked under SpecMode *)

\* the last step was an update_camera call made under mode Auto
AutoCameraCall == h_op = "update_camera" /\ mode = MODE_AUTO

\* the last step was an Auto update_camera call that found is_ember true, the
\* motion signal below EMBER_EXIT and no gesture
CalmSeekingCall ==
    AutoCameraCall /\ h_pre_ember /\ h_motion < EMBER_EXIT /\ ~h_palm

\* C2: under Auto on the camera path, once update_camera has turned is_ember
\* on at time t, is_ember is true after every later update_camera call made
\* at a time <= t + EMBER_COOLDOWN (no cycle() or update_image in between).
C2_NoFlickerInCooldown ==
    (AutoCameraCall /\ h_entered # -1 /\ clock <= h_entered + EMBER_COOLDOWN)
        => is_ember

\* a calm-seeking call made exactly at the end of the window leaves it on
C2_Witness ==
    /\ CalmSeekingCall
    /\ h_entered # -1 /\ clock = h_entered + EMBER_COOLDOWN
    /\ is_ember

\* C3: an Auto update_camera call turns is_ember off only if its signal is
\* below EMBER_EXIT, its gesture flag is false and EMBER_COOLDOWN has elapsed
\* since the last Auto call whose signal was above EMBER_ENTER; so one second
\* after such a call is_ember is still on.
C3_ExitOnlyAfterCooldown ==
    /\ (AutoCameraCall /\ h_pre_ember /\ ~is_ember)
          => /\ h_motion < EMBER_EXIT
             /\ ~h_palm
             /\ (h_above # -1 => clock - h_above >= EMBER_COOLDOWN)
    /\ (AutoCameraCall /\ h_pre_ember /\ h_above # -1 /\ clock - h_above <= 1)
          => is_ember

\* the first low sample, one second after a sample above EMBER_ENTER
C3_Witness ==
    /\ CalmSeekingCall
    /\ h_above # -1 /\ clock - h_above = 1
    /\ is_ember

\* C4 as stated: a calm-seeking call made when at least EMBER_COOLDOWN
\* (boundary included) has elapsed since the motion signal was last above
\* EMBER_ENTER leaves is_ember false.
C4_Original ==
    (CalmSeekingCall /\ h_above # -1 /\ clock - h_above >= EMBER_COOLDOWN)
        => ~is_ember

\* the time update_camera measures the cooldown from
LastTrigger == IF h_trig = -1 THEN 0 ELSE h_trig

\* C4 amended: a calm-seeking call made when strictly more than
\* EMBER_COOLDOWN has elapsed since the last Auto update_camera call that
\* triggered (signal above EMBER_ENTER or gesture flag true; time 0 if none)
\* leaves is_ember false.
C4_ExitAfterCooldown ==
    (CalmSeekingCall /\ clock - LastTrigger > EMBER_COOLDOWN) => ~is_ember

C4_Witness ==
    /\ CalmSeekingCall
    /\ h_trig # -1 /\ clock - h_trig > EMBER_COOLDOWN
    /\ ~is_ember

\* C5: after an Auto update_camera call whose signal is above EMBER_ENTER or
\* whose gesture flag is true, is_ember is true.
C5_TriggerEnters ==
    (AutoCameraCall /\ (h_motion > EMBER_ENTER \/ h_palm)) => is_ember

\* entered from calm by the gesture alone, with the signal below EMBER_EXIT
C5_Witness ==
    /\ AutoCameraCall
    /\ ~h_pre_ember /\ h_palm /\ h_motion < EMBER_EXIT
    /\ is_ember

----------------------------------------------------------------------------
(* Claims about the particle engine, checked under SpecParticles *)

SpawnOps == {"spawn", "spawn_camera", "spawn_palm_sparks"}

\* C1: in every reachable state 0 <= count <= MAX_PARTICLES.
C1_CountWithinCapacity == 0 <= count /\ count <= MAX_PARTICLES

\* a spawn call whose batch was cut by the remaining capacity filled the engine
C1_Witness ==
    /\ e_op \in SpawnOps
    /\ e_pre_count < MAX_PARTICLES
    /\ e_pre_count + SPAWN_PER_FRAME > MAX_PARTICLES
    /\ count = MAX_PARTICLES

\* C6: a call of spawn, spawn_camera or spawn_palm_sparks made when
\* count = MAX_PARTICLES raises nothing and leaves count, every array and the
\* clock as they were.
C6_FullSpawnIsNoop ==
    [][(count = MAX_PARTICLES /\ e_op' \in SpawnOps)
          => (UNCHANGED engVars /\ ~e_raised')]_vars

\* spawn was called on a full engine whose image source has no field
C6_Witness ==
    /\ e_op = "spawn" /\ e_pre_count = MAX_PARTICLES /\ field = 0
    /\ count = MAX_PARTICLES /\ ~e_raised

\* C7 as stated: with count < MAX_PARTICLES a spawn or spawn_camera call adds
\* exactly min(SPAWN_PER_FRAME, MAX_PARTICLES - count) particles and a palm
\* burst exactly min(PALM_SPARKS, MAX_PARTICLES - count); no spawn call
\* lowers count.
C7_SpawnAddsBatch ==
    /\ (e_op \in {"spawn", "spawn_camera"} /\ e_pre_count < MAX_PARTICLES)
          => count = e_pre_count + Min(SPAWN_PER_FRAME, MAX_PARTICLES - e_pre_count)
    /\ (e_op = "spawn_palm_sparks" /\ e_pre_count < MAX_PARTICLES)
          => count = e_pre_count + Min(PALM_SPARKS, MAX_PARTICLES - e_pre_count)
    /\ (e_op \in SpawnOps => count >= e_pre_count)

\* C8 as stated: a spawn call with free capacity whose weight grid sums to
\* less than 1e-6 still adds min(SPAWN_PER_FRAME, MAX_PARTICLES - count)
\* particles.  (The image field never sums that low: SpawnCells.)
C8_ZeroGridStillSpawns ==
    (e_op = "spawn_camera" /\ e_total * 1000 < 1 /\ e_pre_count < MAX_PARTICLES)
        => count = e_pre_count + Min(SPAWN_PER_FRAME, MAX_PARTICLES - e_pre_count)

\* particle i before an update(dt, is_ember) call, as that call should leave it
Integrated(i, dt) ==
    [px |-> IntegrateX(dt, is_ember)[i], py |-> IntegrateY(dt)[i],
     vx |-> vel_x[i], vy |-> vel_y[i],
     life |-> life[i] - dt, max_life |-> max_life[i],
     r |-> color_r[i], g |-> color_g[i], b |-> color_b[i], phase |-> _phase[i]]

\* particle j after the call
After(j) ==
    [px |-> pos_x'[j], py |-> pos_y'[j], vx |-> vel_x'[j], vy |-> vel_y'[j],
     life |-> life'[j], max_life |-> max_life'[j],
     r |-> color_r'[j], g |-> color_g'[j], b |-> color_b'[j], phase |-> _phase'[j]]

\* C9: after update(dt) the live particles are, as a multiset, exactly the
\* particles live before whose life - dt > 0, each with its own velocity,
\* max_life, colour and phase, its life lowered by dt and its position
\* integrated.
C9_UpdateKeepsSurvivors ==
    [][e_op' = "update" =>
        LET dt == e_dt'
            surv == {i \in Slots : i < count /\ life[i] - dt > 0}
            live == {j \in Slots : j < count'}
        IN  /\ count' = Cardinality(surv)
            /\ \A i \in surv :
                  Cardinality({k \in surv : Integrated(k, dt) = Integrated(i, dt)})
                    = Cardinality({j \in live : After(j) = Integrated(i, dt)})
            /\ \A j \in live : \E i \in surv : After(j) = Integrated(i, dt)
      ]_vars

\* an update removed some particles and kept others
C9_Witness == e_op = "update" /\ 0 < count /\ count < e_pre_count

\* C10: every particle below count has life > 0, after an update and after a
\* spawn alike, so compacting again selects every live index and moves
\* nothing: count and all arrays stay as they are.
C10_CompactionIdempotent ==
    LET alive_idx == AliveIdx(life, count)
    IN  /\ \A i \in Slots : i < count => life[i] > 0
        /\ Len(alive_idx) = count
        /\ Compact(pos_x, alive_idx) = pos_x /\ Compact(pos_y, alive_idx) = pos_y
        /\ Compact(vel_x, alive_idx) = vel_x /\ Compact(vel_y, alive_idx) = vel_y
        /\ Compact(life, alive_idx) = life
        /\ Compact(max_life, alive_idx) = max_life
        /\ Compact(color_r, alive_idx) = color_r
        /\ Compact(color_g, alive_idx) = color_g
        /\ Compact(color_b, alive_idx) = color_b
        /\ Compact(_phase, alive_idx) = _phase

\* an update of a full engine compacted it to fewer, still live, particles
C10_Witness ==
    /\ e_op = "update" /\ e_pre_count = MAX_PARTICLES
    /\ 0 < count /\ count < MAX_PARTICLES

\* C11: count grows only in a spawn call and shrinks only in update:
\* recolor_fire_gradient and pack_gpu leave it, update never raises it and no
\* spawn call lowers it.
C11_CountFrame ==
    [][/\ e_op' \in {"recolor_fire_gradient", "pack_gpu"} => count' = count
       /\ e_op' = "update" => count' <= count
       /\ e_op' \in SpawnOps => count' >= count
       /\ count' > count => e_op' \in SpawnOps
       /\ count' < count => e_op' = "update"]_vars

\* pack_gpu returned the buffer of a non-empty engine and left its count
C11_Witness ==
    /\ e_op = "pack_gpu" /\ e_pre_count > 0 /\ count = e_pre_count
    /\ e_ret # <<>>

----------------------------------------------------------------------------
(* Further claims about the regime controller *)

\* the last step was an update_camera or an update_image call
UpdateCalls == {"update_camera", "update_image"}

\* C12: an update_camera or update_image call made under a forced mode
\* leaves is_ember false under MODE_FORCE_HUMANITY and true under
\* MODE_FORCE_EMBER, whatever the signal, the gesture flag and the time, and
\* leaves _last_high, _ember_since and _cycle_start as they were.
C12_ForcedPinned ==
    [][(h_op' \in UpdateCalls /\ mode # MODE_AUTO)
          => /\ is_ember' = (mode = MODE_FORCE_EMBER)
             /\ UNCHANGED <<_last_high, _ember_since, _cycle_start>>]_vars

\* forced calm held against both triggers, later than the last stamp
C12_Witness ==
    /\ h_op = "update_camera" /\ mode = MODE_FORCE_HUMANITY
    /\ h_pre_ember /\ h_palm /\ h_motion > EMBER_ENTER
    /\ ~is_ember /\ _last_high < clock

\* the last step was an update_image call made under mode Auto
AutoImageCall == h_op = "update_image" /\ mode = MODE_AUTO

\* C13: after an Auto update_image call made elapsed seconds after
\* _cycle_start, is_ember is false when elapsed lies in [0, 12) of a 20 s
\* period and true when it lies in [12, 20), whatever is_ember was before.
C13_ImageCycle ==
    AutoImageCall =>
        LET elapsed == clock - _cycle_start
            period  == IMAGE_HUMANITY_DURATION + IMAGE_EMBER_DURATION
        IN  /\ elapsed >= 0
            /\ \A k \in 0 .. (MaxImageClock \div period) :
                  /\ (k * period <= elapsed
                        /\ elapsed < k * period + IMAGE_HUMANITY_DURATION)
                       => ~is_ember
                  /\ (k * period + IMAGE_HUMANITY_DURATION <= elapsed
                        /\ elapsed < (k + 1) * period)
                       => is_ember

\* in the second period the call turned an energized regime back to calm
C13_Witness ==
    /\ AutoImageCall
    /\ clock - _cycle_start >= IMAGE_HUMANITY_DURATION + IMAGE_EMBER_DURATION
    /\ h_pre_ember /\ ~is_ember

\* Auto -> ForceCalm -> ForceEnergized -> Auto
RoundRobin(m) ==
    CASE m = MODE_AUTO -> MODE_FORCE_HUMANITY
      [] m = MODE_FORCE_HUMANITY -> MODE_FORCE_EMBER
      [] m = MODE_FORCE_EMBER -> MODE_AUTO

\* C14: cycle() moves mode one step round-robin (three steps come back to
\* the same mode), sets _cycle_start to the current time and leaves is_ember
\* and _last_high; an Auto update_image call made less than
\* IMAGE_HUMANITY_DURATION after the last cycle() call yields calm.
C14_CycleRoundRobin ==
    [][/\ h_op' = "cycle"
            => /\ mode' = RoundRobin(mode)
               /\ RoundRobin(RoundRobin(mode')) = mode
               /\ _cycle_start' = clock
               /\ UNCHANGED <<is_ember, _last_high>>
       /\ (h_op' = "update_image" /\ mode = MODE_AUTO /\ h_cycled # -1
             /\ clock - h_cycled < IMAGE_HUMANITY_DURATION)
            => ~is_ember']_vars

\* the last second of the calm window that a cycle() call opened
C14_Witness ==
    /\ AutoImageCall
    /\ h_cycled # -1 /\ h_cycled > 0
    /\ clock - h_cycled = IMAGE_HUMANITY_DURATION - 1
    /\ h_pre_ember /\ ~is_ember

----------------------------------------------------------------------------
(* Claims about the application, checked under SpecApp *)

\* C15 as stated: in a frame of the camera path the two snapshots on_draw
\* takes come from one publication of the capture thread, so the signal and
\* the gesture flag handed to update_camera belong to one publication.
C15_OneSnapshotPerFrame ==
    /\ (f_data # -1 /\ f_hand # -1) => f_data = f_hand
    /\ (f_pc = "cam_ctrl" /\ h_op = "update_camera")
          => \E b \in 0 .. MaxPub :
                h_motion = AvgMotionOf(b) /\ h_palm = HandOf(b).is_open_palm

\* C16 as stated: once the window is closed and a camera was created, the
\* _running flag is cleared and the capture thread was joined.
C16_StopBeforeClose ==
    (window = "closed" /\ camera # "none") => (~_running /\ joined # "no")

\* C17 as stated: no step of a frame raises, whatever the engine and the
\* image source hold.
C17_FrameTotal == ~e_raised /\ f_pc # "raised"

\* C18 as stated: a constructed image source is never left without grid,
\* probability field and fit geometry.
C18_NoPartialSource ==
    grid_w > 0 /\ grid_h > 0 /\ HasSpawnProbs /\ HasFit

----------------------------------------------------------------------------
(* Claims about pack_gpu, checked under SpecPack *)

\* life / max_life of particle i, in thousandths
Ratio(i) == (life[i] * 1000) \div max_life[i]

\* the alpha and the size of particle i in the buffer pack_gpu returned
AlphaOut(i) == e_ret[7 * i + 5]
SizeOut(i) == e_ret[7 * i + 6]

\* C19: the alpha pack_gpu writes depends on life / max_life alone: 0 at
\* ratio 1.0, linear up to 1.0 at ratio 0.85, linear down to 0 at ratio 0.0,
\* within [0, 1], and computed from the life the particle has at the call.
C19_AlphaOfRatio ==
    e_op = "pack_gpu" =>
        \A i \in Slots : i < count =>
            /\ 0 <= AlphaOut(i) /\ AlphaOut(i) <= 1000
            /\ Ratio(i) = 1000 => AlphaOut(i) = 0
            /\ Ratio(i) = 850 => AlphaOut(i) = 1000
            /\ Ratio(i) >= 850
                  => /\ AlphaOut(i) * 150 <= (1000 - Ratio(i)) * 1000
                     /\ (1000 - Ratio(i)) * 1000 < (AlphaOut(i) + 1) * 150
            /\ Ratio(i) <= 850
                  => /\ AlphaOut(i) * 850 <= Ratio(i) * 1000
                     /\ Ratio(i) * 1000 < (AlphaOut(i) + 1) * 850
            /\ \A j \in Slots :
                  (j < count /\ Ratio(j) = Ratio(i)) => AlphaOut(j) = AlphaOut(i)

\* packed again after an update: particle 0 has come down to the peak, and
\* particle 1, of another max_life, is still fading in
C19_Witness ==
    /\ e_op = "pack_gpu" /\ _time > 0 /\ count = 2
    /\ Ratio(0) = 850 /\ AlphaOut(0) = 1000
    /\ max_life[1] # max_life[0] /\ Ratio(1) = 900
    /\ 0 < AlphaOut(1) /\ AlphaOut(1) < 1000

\* C20 as stated: the size pack_gpu writes is the minimum 1.5 at ratio 1.0
\* and grows linearly to the maximum 5.5 as the ratio goes down to 0.
C20_SizeGrowsWithAge ==
    e_op = "pack_gpu" =>
        \A i \in Slots : i < count => SizeOut(i) = 1500 + (1000 - Ratio(i)) * 4

----------------------------------------------------------------------------
(* Further claims about the particle engine *)

\* C21: pack_gpu returns a flat buffer of exactly 7 * count values in which
\* particle i occupies positions 7i..7i+6 in the order x, y, r, g, b, alpha,
\* size; with count = 0 the buffer is empty; the call changes no engine state.
C21_PackLayout ==
    [][e_op' = "pack_gpu" =>
          /\ UNCHANGED engVars
          /\ DOMAIN e_ret' = 0 .. (7 * count - 1)
          /\ count = 0 => e_ret' = <<>>
          /\ \A i \in Slots : i < count =>
                /\ e_ret'[7 * i] = pos_x[i]
                /\ e_ret'[7 * i + 1] = pos_y[i]
                /\ e_ret'[7 * i + 2] = color_r[i]
                /\ e_ret'[7 * i + 3] = color_g[i]
                /\ e_ret'[7 * i + 4] = color_b[i]
                /\ e_ret'[7 * i + 5] = PackAlpha(life[i], max_life[i])
                /\ e_ret'[7 * i + 6] = PackSize(life[i], max_life[i])]_vars

\* two particles at different places packed: the second one's x is at 7
C21_Witness ==
    /\ e_op = "pack_gpu" /\ count = 2
    /\ pos_x[0] # pos_x[1] /\ e_ret[7] = pos_x[1]
    /\ e_ret[5] # e_ret[6]

\* C22: recolor_fire_gradient changes only the colour channels of the
\* particles at indices below count: positions, velocities, life, max_life,
\* phase, count and the internal clock are left, the colours of the slots at
\* count and above are left, and with count = 0 nothing changes.
C22_RecolorFrame ==
    [][e_op' = "recolor_fire_gradient" =>
          /\ UNCHANGED <<pos_x, pos_y, vel_x, vel_y, life, max_life, _phase,
                         count, _time>>
          /\ \A i \in Slots : i >= count =>
                /\ color_r'[i] = color_r[i]
                /\ color_g'[i] = color_g[i]
                /\ color_b'[i] = color_b[i]
          /\ count = 0 => UNCHANGED engVars]_vars

\* a recolor of a partly filled engine: slot 0 carries the gradient, the
\* free slot behind the live ones does not
C22_Witness ==
    /\ e_op = "recolor_fire_gradient" /\ 0 < count /\ count < MAX_PARTICLES
    /\ color_r[0] = 100 /\ color_b[0] = 0
    /\ color_r[count] # 100

\* C23: recolor_fire_gradient is a function of the current positions and the
\* origin alone: the colours it leaves are those of the gradient at each
\* particle's position, whatever the colours were before, and a second call
\* with the same origin and nothing in between leaves the colours of the
\* first.
C23_RecolorPure ==
    [][e_op' = "recolor_fire_gradient" =>
          /\ \A i \in Slots : i < count =>
                /\ color_r'[i] = 100
                /\ color_g'[i] = FireGreen(pos_x[i], pos_y[i], e_origin')
                /\ color_b'[i] = 0
          /\ (e_op = "recolor_fire_gradient" /\ e_origin' = e_origin)
                => UNCHANGED <<color_r, color_g, color_b>>
          /\ \A i, j \in Slots :
                (i < count /\ j < count /\ pos_x[i] = pos_x[j]
                    /\ pos_y[i] = pos_y[j]) => color_g'[i] = color_g'[j]]_vars

\* a recolor from the second origin over particles the first one had painted
\* otherwise
C23_Witness ==
    /\ e_op = "recolor_fire_gradient" /\ count >= 2
    /\ e_origin = [x |-> -400, y |-> 300]
    /\ color_g[0] # FireGreen(pos_x[0], pos_y[0], [x |-> 500, y |-> -500])

\* C26 as stated: every update(dt) call advances the internal clock by dt
\* and takes dt off the life of every live particle, in every state, the
\* empty engine included (where only the clock advances).
C26_UpdateAdvancesClock ==
    [][e_op' = "update" =>
          /\ _time' = _time + e_dt'
          /\ count' = count =>
                \A i \in Slots : i < count => life'[i] = life[i] - e_dt'
          /\ count = 0 => UNCHANGED <<count, arrayVars>>]_vars

\* C28: a spawn call (spawn, spawn_camera, spawn_palm_sparks) writes only the
\* slots [old count, new count): every attribute of every particle live
\* before the call, and every slot behind the new count, is unchanged, and
\* each new particle has life = max_life > 0.
C28_SpawnFrame ==
    [][e_op' \in SpawnOps =>
          /\ \A i \in Slots : (i < count \/ i >= count') =>
                /\ pos_x'[i] = pos_x[i] /\ pos_y'[i] = pos_y[i]
                /\ vel_x'[i] = vel_x[i] /\ vel_y'[i] = vel_y[i]
                /\ life'[i] = life[i] /\ max_life'[i] = max_life[i]
                /\ color_r'[i] = color_r[i] /\ color_g'[i] = color_g[i]
                /\ color_b'[i] = color_b[i] /\ _phase'[i] = _phase[i]
          /\ \A i \in Slots : (count <= i /\ i < count') =>
                /\ life'[i] = max_life'[i]
                /\ life'[i] > 0
          /\ _time' = _time]_vars

\* a spawn onto an engine that already held an aged particle
C28_Witness ==
    /\ e_op \in SpawnOps /\ e_pre_count > 0 /\ count > e_pre_count
    /\ life[0] < max_life[0]
    /\ life[count - 1] = max_life[count - 1]

----------------------------------------------------------------------------
(* The hysteresis band of the regime controller *)

\* C25: under mode Auto, an update_camera call with the motion signal inside
\* the band [EMBER_EXIT, EMBER_ENTER] and no gesture leaves is_ember as it
\* was before the call, calm or energized, however much time has elapsed.
C25_BandKeepsRegime ==
    (AutoCameraCall /\ EMBER_EXIT <= h_motion /\ h_motion <= EMBER_ENTER
        /\ ~h_palm)
        => is_ember = h_pre_ember

\* energized, the cooldown long over, and a call at the lower edge of the
\* band: still energized
C25_Witness ==
    /\ AutoCameraCall /\ h_motion = EMBER_EXIT /\ ~h_palm
    /\ h_pre_ember /\ is_ember
    /\ clock - _last_high > EMBER_COOLDOWN

----------------------------------------------------------------------------
(* The gesture confidence *)

\* C24 as stated: on every processed frame the confidence becomes
\* 0.7 * confidence + 0.3 * raw with raw in {0, 1} (0 when no hand is
\* detected), it stays in [0, 1], the is_open_palm flag returned for the frame
\* equals (confidence' > 0.5), and a single raw-open frame from confidence 0
\* does not report an open palm.
C24_FlagIsThreshold ==
    t_op = "process" =>
        /\ t_raw \in {0, 1}
        /\ ~t_hand => t_raw = 0
        /\ _ema_confidence = (t_pre * 7) \div 10 + t_raw * 300
        /\ 0 <= _ema_confidence /\ _ema_confidence <= 1000
        /\ hd_is_open_palm = (_ema_confidence > 500)
        /\ (t_pre = 0 /\ t_raw = 1) => ~hd_is_open_palm

----------------------------------------------------------------------------
(* The image list *)

\* C27 as stated: after every next_image or prev_image call the stored
\* density field is the one built from the image at the current index, the
\* image image_name reports; index and field never refer to different images.
C27_FieldOfCurrentImage ==
    s_op \in {"next_image", "prev_image"} => field = image_name

----------------------------------------------------------------------------
(* The end of the capture thread *)

\* C29 as stated: once Camera.stop() has returned, the capture thread makes
\* no further pass of its loop (no read of the device, no call into the hand
\* tracker): the release and the close in stop() never run while a pass is
\* under way or ahead, even when the join timed out.
C29_NoUseAfterStop ==
    [][joined # "no" => ~(_thread = "body" /\ _thread' = "top")]_vars

----------------------------------------------------------------------------
(* The end of every particle *)

====
